---------------------------- MODULE Spec2Model ----------------------------
(***************************************************************************)
(* A model of src/app.js, the client-side script of the UPI recommendation *)
(* dashboard: the static tables of appData, the scorer                     *)
(* generateRecommendation, and the event handlers that drive it (form      *)
(* submit, user selection, slider, navigation, the deferred chart set-up). *)
(*                                                                         *)
(* JavaScript values are modelled as records of one shape, so that values  *)
(* of different JavaScript types can be compared:                          *)
(*   t  the type tag ("number", "nan", "undefined", "string", "function",  *)
(*      "object")                                                          *)
(*   n, d  a number as the exact fraction n/d, d > 0                       *)
(*   s  the text of a string, or the name of a function                    *)
(* Numbers are exact fractions.  The code computes in IEEE doubles; every  *)
(* product it rounds is a multiple of 1/5000 below 10^4 computed with a    *)
(* relative error below 2^-50, so Math.round of the double equals the      *)
(* rounding of the exact fraction unless the fraction lies exactly on a    *)
(* half, which NoRoundingTie shows never happens for the tables.           *)
(***************************************************************************)
EXTENDS Integers, Sequences, FiniteSets, TLC

VARIABLES
    appData,        \* the tables: [userProfiles, categoryAverages]
    charts,         \* the chart registry: [spending |-> <<>> or its 6 data points]
    fields,         \* the form controls' values
    dom,            \* the text and classes the handlers write
    activeSection,  \* the section the navigation shows
    timerPending,   \* the 100 ms timer of DOMContentLoaded has not fired yet
    event,          \* history: whether the handler that ran last was the form's
                    \* submit handler, and the calls of the scorer it made
    lastCall,       \* history: the last call of generateRecommendation by the form
    probe,          \* history: an earlier call, kept for comparison
    probePhase,     \* history: what happened since the probe was taken
    params,         \* scorer alone: the argument of the call
    result,         \* scorer alone: what the call returned
    prev,           \* scorer alone: the previous call and its result
    pc              \* scorer alone: "idle", "ready" or "returned"

vars == <<appData, charts, fields, dom, activeSection, timerPending, event,
          lastCall, probe, probePhase, params, result, prev, pc>>

uiVars == <<charts, fields, dom, activeSection, timerPending, event,
            lastCall, probe, probePhase>>

scoreVars == <<params, result, prev, pc>>

-----------------------------------------------------------------------------
(* JavaScript values *)

Num(i) == [t |-> "number", n |-> i, d |-> 1, s |-> ""]

Rat(i, j) == [t |-> "number", n |-> i, d |-> j, s |-> ""]

NaN == [t |-> "nan", n |-> 0, d |-> 1, s |-> ""]

Undefined == [t |-> "undefined", n |-> 0, d |-> 1, s |-> ""]

Str(x) == [t |-> "string", n |-> 0, d |-> 1, s |-> x]

Fn(name) == [t |-> "function", n |-> 0, d |-> 1, s |-> name]

Obj(name) == [t |-> "object", n |-> 0, d |-> 1, s |-> name]

IsNumber(v) == v.t = "number"

\* ToBoolean: undefined, NaN, 0 and "" are falsy; objects and functions are truthy.
Truthy(v) ==
    CASE v.t = "number" -> v.n # 0
      [] v.t = "string" -> v.s # ""
      [] v.t \in {"function", "object"} -> TRUE
      [] OTHER -> FALSE

\* ToNumber of the values the scorer meets: a number is itself; undefined, a
\* function and a plain object are NaN.
ToNumber(v) == IF v.t = "number" THEN v ELSE NaN

\* a * b: NaN if either operand is not a number.
Mul(a, b) ==
    LET x == ToNumber(a)
        y == ToNumber(b)
    IN  IF IsNumber(x) /\ IsNumber(y) THEN Rat(x.n * y.n, x.d * y.d) ELSE NaN

\* a / b for a non-zero b: NaN if either operand is not a number.
Div(a, b) ==
    LET x == ToNumber(a)
        y == ToNumber(b)
    IN  IF IsNumber(x) /\ IsNumber(y) /\ y.n > 0
        THEN Rat(x.n * y.d, x.d * y.n)
        ELSE NaN

\* a >= b, a <= b, a > b: false as soon as one side is NaN.
Ge(a, b) ==
    LET x == ToNumber(a)
        y == ToNumber(b)
    IN  IsNumber(x) /\ IsNumber(y) /\ x.n * y.d >= y.n * x.d

Le(a, b) == Ge(b, a)

Gt(a, b) ==
    LET x == ToNumber(a)
        y == ToNumber(b)
    IN  IsNumber(x) /\ IsNumber(y) /\ x.n * y.d > y.n * x.d

\* a === b: the same type and the same value; NaN equals nothing.
StrictEq(a, b) ==
    /\ a.t = b.t
    /\ a.t # "nan"
    /\ a.t = "number" => a.n * b.d = b.n * a.d
    /\ a.t \in {"string", "function", "object"} => a.s = b.s

\* Mutant: Math.floor in the place of Math.round.
MathRound_floor(v) ==
    LET x == ToNumber(v)
    IN  IF IsNumber(x) THEN Num(x.n \div x.d) ELSE NaN

\* Math.round: the nearest integer, a half rounding up; NaN stays NaN.
MathRound(v) ==
    LET x == ToNumber(v)
    IN  IF IsNumber(x) THEN Num((2 * x.n + x.d) \div (2 * x.d)) ELSE NaN

\* Math.max and Math.min: NaN as soon as one argument is NaN.
MathMax(a, b) ==
    LET x == ToNumber(a)
        y == ToNumber(b)
    IN  IF IsNumber(x) /\ IsNumber(y) THEN (IF Ge(x, y) THEN x ELSE y) ELSE NaN

MathMin(a, b) ==
    LET x == ToNumber(a)
        y == ToNumber(b)
    IN  IF IsNumber(x) /\ IsNumber(y) THEN (IF Ge(x, y) THEN y ELSE x) ELSE NaN

\* String(v) as a template literal applies it.
ToStringJS(v) ==
    CASE v.t = "string" -> v.s
      [] v.t = "number" -> ToString(v.n)
      [] v.t = "nan" -> "NaN"
      [] v.t = "undefined" -> "undefined"
      [] v.t = "function" -> "function " \o v.s \o "() { [native code] }"
      [] OTHER -> "[object Object]"

-----------------------------------------------------------------------------
(* The tables of appData *)

userProfiles ==
    [u \in {"USER_0001", "USER_0002", "USER_0003", "USER_0655", "USER_0755"} |->
       CASE u = "USER_0001" ->
              [avg_amount |-> 1017, cluster |-> 1, cluster_name |-> "High-Value Users",
               transactions |-> 8, preferred_category |-> "Entertainment"]
         [] u = "USER_0002" ->
              [avg_amount |-> 1004, cluster |-> 1, cluster_name |-> "High-Value Users",
               transactions |-> 8, preferred_category |-> "Healthcare"]
         [] u = "USER_0003" ->
              [avg_amount |-> 850, cluster |-> 0, cluster_name |-> "Conservative Spenders",
               transactions |-> 6, preferred_category |-> "Groceries"]
         [] u = "USER_0655" ->
              [avg_amount |-> 1360, cluster |-> 3, cluster_name |-> "Active Users",
               transactions |-> 12, preferred_category |-> "Food & Dining"]
         [] u = "USER_0755" ->
              [avg_amount |-> 713, cluster |-> 2,
               cluster_name |-> "Frequent Small Transactions",
               transactions |-> 15, preferred_category |-> "Transportation"]]

categoryAverages ==
    [c \in {"Food & Dining", "Transportation", "Shopping", "Bills & Utilities",
            "Entertainment", "Healthcare", "Education", "Groceries", "Fuel",
            "Transfer to Friends"} |->
       CASE c = "Food & Dining" -> 255
         [] c = "Transportation" -> 118
         [] c = "Shopping" -> 842
         [] c = "Bills & Utilities" -> 674
         [] c = "Entertainment" -> 398
         [] c = "Healthcare" -> 823
         [] c = "Education" -> 1987
         [] c = "Groceries" -> 354
         [] c = "Fuel" -> 512
         [] c = "Transfer to Friends" -> 1634]

\* The properties every object literal inherits from Object.prototype: a lookup
\* by a key the object does not own, such as appData.userProfiles[key], finds
\* them there.
ObjectPrototypeKeys ==
    {"constructor", "__proto__", "toString", "toLocaleString", "valueOf",
     "hasOwnProperty", "isPrototypeOf", "propertyIsEnumerable",
     "__defineGetter__", "__defineSetter__", "__lookupGetter__",
     "__lookupSetter__"}

\* What table[key] finds through the prototype chain when the table does not
\* own the key: Object.prototype itself for "__proto__", the function Object
\* for "constructor", a method of that name otherwise; undefined for any other
\* key.
Inherited(key) ==
    IF key \notin ObjectPrototypeKeys THEN Undefined
    ELSE IF key = "__proto__" THEN Obj("Object.prototype")
    ELSE IF key = "constructor" THEN Fn("Object")
    ELSE Fn(key)

\* appData.userProfiles[params.userId]: a reference to the profile the table
\* owns under that key, or what the prototype chain gives.
userProfileOf(p) ==
    IF p.userId \in DOMAIN appData.userProfiles
    THEN [own |-> TRUE, key |-> p.userId, v |-> Obj("profile")]
    ELSE [own |-> FALSE, key |-> "", v |-> Inherited(p.userId)]

\* Mutant: the lookup of line 154 copied with its key, params.userId.
categoryAvgOf_userIdKey(p) ==
    IF p.userId \in DOMAIN appData.categoryAverages
    THEN Num(appData.categoryAverages[p.userId])
    ELSE Inherited(p.userId)

\* Mutant: a missing category falls back to 500, as on the unknown-user path.
categoryAvgOf_default(p) ==
    IF p.category \in DOMAIN appData.categoryAverages
    THEN Num(appData.categoryAverages[p.category])
    ELSE Num(500)

\* appData.categoryAverages[params.category]
categoryAvgOf(p) ==
    IF p.category \in DOMAIN appData.categoryAverages
    THEN Num(appData.categoryAverages[p.category])
    ELSE Inherited(p.category)

\* The properties of a profile reference; a value found on the prototype chain
\* has none of them.
avg_amount(ref) ==
    IF ref.own THEN Num(appData.userProfiles[ref.key].avg_amount) ELSE Undefined

cluster_name(ref) ==
    IF ref.own THEN Str(appData.userProfiles[ref.key].cluster_name) ELSE Undefined

transactions(ref) ==
    IF ref.own THEN Num(appData.userProfiles[ref.key].transactions) ELSE Undefined

preferred_category(ref) ==
    IF ref.own THEN Str(appData.userProfiles[ref.key].preferred_category) ELSE Undefined

-----------------------------------------------------------------------------
(* parseInt *)

\* Strings that are parsed are sequences of one-character strings.
WhiteSpace == {" ", "\t", "\n"}

HexLetters == {"a", "b", "c", "d", "e", "f", "A", "B", "C", "D", "E", "F"}

DecDigits == {"0", "1", "2", "3", "4", "5", "6", "7", "8", "9"}

DigitValue(c) ==
    CASE c = "0" -> 0 [] c = "1" -> 1 [] c = "2" -> 2 [] c = "3" -> 3
      [] c = "4" -> 4 [] c = "5" -> 5 [] c = "6" -> 6 [] c = "7" -> 7
      [] c = "8" -> 8 [] c = "9" -> 9
      [] c \in {"a", "A"} -> 10 [] c \in {"b", "B"} -> 11
      [] c \in {"c", "C"} -> 12 [] c \in {"d", "D"} -> 13
      [] c \in {"e", "E"} -> 14 [] c \in {"f", "F"} -> 15
      [] OTHER -> 99

RECURSIVE SkipWhiteSpace(_)
SkipWhiteSpace(str) ==
    IF str # <<>> /\ Head(str) \in WhiteSpace THEN SkipWhiteSpace(Tail(str)) ELSE str

\* The longest prefix of digits of the radix: [seen, value].
RECURSIVE ParseDigits(_, _, _, _)
ParseDigits(str, radix, seen, acc) ==
    IF str # <<>> /\ Head(str) \in (DecDigits \cup HexLetters)
                  /\ DigitValue(Head(str)) < radix
    THEN ParseDigits(Tail(str), radix, TRUE, acc * radix + DigitValue(Head(str)))
    ELSE [seen |-> seen, value |-> acc]

\* parseInt(string) with no radix: leading white space is skipped, a sign is
\* read, "0x" or "0X" selects radix 16, then the longest prefix of digits is
\* the value; NaN when there is no digit.
parseInt(str) ==
    LET s1 == SkipWhiteSpace(str)
        signed == s1 # <<>> /\ Head(s1) \in {"+", "-"}
        sign == IF s1 # <<>> /\ Head(s1) = "-" THEN -1 ELSE 1
        s2 == IF signed THEN Tail(s1) ELSE s1
        hex == Len(s2) >= 2 /\ s2[1] = "0" /\ s2[2] \in {"x", "X"}
        s3 == IF hex THEN Tail(Tail(s2)) ELSE s2
        r == ParseDigits(s3, IF hex THEN 16 ELSE 10, FALSE, 0)
    IN  IF r.seen THEN Num(sign * r.value) ELSE NaN

-----------------------------------------------------------------------------
(* generateRecommendation *)

\* Mutant: the upper ends of the bands are excluded (< for <=).
hourMultiplierOf_exclusive(p) ==
    LET hour == parseInt(p.hour)
    IN  IF Ge(hour, Num(6)) /\ Gt(Num(10), hour) THEN Rat(8, 10)
        ELSE IF Ge(hour, Num(11)) /\ Gt(Num(14), hour) THEN Rat(12, 10)
        ELSE IF Ge(hour, Num(18)) /\ Gt(Num(22), hour) THEN Rat(11, 10)
        ELSE Rat(7, 10)

\* The multiplier for the time of day, from parseInt(params.hour).
hourMultiplierOf(p) ==
    LET hour == parseInt(p.hour)
    IN  IF Ge(hour, Num(6)) /\ Le(hour, Num(10)) THEN Rat(8, 10)
        ELSE IF Ge(hour, Num(11)) /\ Le(hour, Num(14)) THEN Rat(12, 10)
        ELSE IF Ge(hour, Num(18)) /\ Le(hour, Num(22)) THEN Rat(11, 10)
        ELSE Rat(7, 10)

\* Mutant: the location enters the amount (a surcharge for one city).
recommendedAmountOf_location(userProfile, categoryAvg, p) ==
    LET baseAmount == avg_amount(userProfile)
        categoryMultiplier == Div(categoryAvg, Num(500))
        hourMultiplier == hourMultiplierOf(p)
        locationMultiplier == IF p.location = "Mumbai" THEN Rat(11, 10) ELSE Num(1)
    IN  MathRound(Mul(Mul(Mul(baseAmount, categoryMultiplier), hourMultiplier),
                      locationMultiplier))

\* Math.round(baseAmount * categoryMultiplier * hourMultiplier)
recommendedAmountOf(userProfile, categoryAvg, p) ==
    LET baseAmount == avg_amount(userProfile)
        categoryMultiplier == Div(categoryAvg, Num(500))
        hourMultiplier == hourMultiplierOf(p)
    IN  MathRound(Mul(Mul(baseAmount, categoryMultiplier), hourMultiplier))

\* Mutant: the cap of 95 is missing.
confidenceOf_uncapped(userProfile, p) ==
    LET c0 == 70
        c1 == IF StrictEq(preferred_category(userProfile), Str(p.category))
              THEN c0 + 20 ELSE c0
        c2 == IF Gt(transactions(userProfile), Num(10)) THEN c1 + 10 ELSE c1
    IN  c2

\* Mutant: the preferred category is compared with the cluster's name.
confidenceOf_wrongField(userProfile, p) ==
    LET c0 == 70
        c1 == IF StrictEq(cluster_name(userProfile), Str(p.category))
              THEN c0 + 20 ELSE c0
        c2 == IF Gt(transactions(userProfile), Num(10)) THEN c1 + 10 ELSE c1
    IN  MathMin(Num(c2), Num(95)).n

\* 70, plus 20 for the preferred category, plus 10 above ten transactions,
\* at most 95.
confidenceOf(userProfile, p) ==
    LET c0 == 70
        c1 == IF StrictEq(preferred_category(userProfile), Str(p.category))
              THEN c0 + 20 ELSE c0
        c2 == IF Gt(transactions(userProfile), Num(10)) THEN c1 + 10 ELSE c1
    IN  MathMin(Num(c2), Num(95)).n

\* Mutant: hidden state: once the spending chart exists, the base amount is
\* read from the chart's first point, which updateSpendingChart jitters.
generateRecommendation_chartBase(p) ==
    LET userProfile == userProfileOf(p)
        categoryAvg == categoryAvgOf(p)
        baseAmount == IF charts.spending.created THEN charts.spending.data[1]
                      ELSE avg_amount(userProfile)
    IN  IF ~Truthy(userProfile.v)
        THEN [amount |-> IF Truthy(categoryAvg) THEN categoryAvg ELSE Num(500),
              confidence |-> 75,
              cluster |-> Str("Unknown"),
              reasoning |-> "Based on category average and system patterns"]
        ELSE [amount |-> MathMax(MathRound(Mul(Mul(baseAmount,
                                                   Div(categoryAvg, Num(500))),
                                               hourMultiplierOf(p))),
                                 Num(50)),
              confidence |-> confidenceOf(userProfile, p),
              cluster |-> cluster_name(userProfile),
              reasoning |-> "Based on "
                            \o ToStringJS(cluster_name(userProfile))
                            \o " spending pattern, " \o p.category
                            \o " preferences, and transaction time analysis"]

generateRecommendation(p) ==
    LET userProfile == userProfileOf(p)
        categoryAvg == categoryAvgOf(p)
    IN  IF ~Truthy(userProfile.v)
        THEN [amount |-> IF Truthy(categoryAvg) THEN categoryAvg ELSE Num(500),
              confidence |-> 75,
              cluster |-> Str("Unknown"),
              reasoning |-> "Based on category average and system patterns"]
        ELSE [amount |-> MathMax(recommendedAmountOf(userProfile, categoryAvg, p),
                                 Num(50)),
              confidence |-> confidenceOf(userProfile, p),
              cluster |-> cluster_name(userProfile),
              reasoning |-> "Based on "
                            \o ToStringJS(cluster_name(userProfile))
                            \o " spending pattern, " \o p.category
                            \o " preferences, and transaction time analysis"]

-----------------------------------------------------------------------------
(* The inputs of the scorer taken alone *)

\* Hours -LowHours .. MaxHourInput are tried as decimal numerals.
LowHours == 2

MaxHourInput == 25

RECURSIVE Digits(_)
Digits(n) ==
    IF n < 10 THEN <<ToString(n)>> ELSE Append(Digits(n \div 10), ToString(n % 10))

\* The decimal numeral of an integer, as a range input's value gives it.
Numeral(n) == IF n < 0 THEN <<"-">> \o Digits(-n) ELSE Digits(n)

NumeralHours == {Numeral(n) : n \in (-LowHours) .. MaxHourInput}

\* Strings parseInt makes no number of.
NonNumericHours == {<<>>, <<"a", "b", "c">>, <<"N", "a", "N">>, <<"-">>, <<"x", "8">>}

\* Strings parseInt reads a number from although they are no decimal numerals.
PrefixHours == {<<" ", "8">>, <<"1", "3", ".", "9">>, <<"2", "0", "h">>,
                <<"0", "x", "B">>, <<"+", "7">>}

ScoreHours == NumeralHours \cup NonNumericHours \cup PrefixHours

ScoreUserIds == DOMAIN userProfiles \cup {"", "USER_9999", "constructor", "__proto__"}

ScoreCategories == DOMAIN categoryAverages \cup {"", "Rent", "constructor", "__proto__"}

ScoreLocations == {"Mumbai", "Delhi"}

ScorePaymentMethods == {"PhonePe", "Google Pay"}

ScoreParams ==
    [userId : ScoreUserIds, category : ScoreCategories, location : ScoreLocations,
     paymentMethod : ScorePaymentMethods, hour : ScoreHours]

NoParams ==
    [userId |-> "", category |-> "", location |-> "", paymentMethod |-> "", hour |-> <<>>]

NoResult ==
    [amount |-> Undefined, confidence |-> 0, cluster |-> Undefined, reasoning |-> ""]

NoCall == [made |-> FALSE, params |-> NoParams, result |-> NoResult]

-----------------------------------------------------------------------------
(* The page: what the handlers read and write *)

\* The options the form's controls offer.  The page's markup is not part of
\* the script; the sets are small samples: the empty option, users with and
\* without more than ten transactions, a category one of them prefers.
UserOptions == {"", "USER_0001", "USER_0655"}

CategoryOptions == {"", "Entertainment"}

LocationOptions == {"", "Mumbai"}

PaymentOptions == {"", "PhonePe"}

HourOptions == {<<"8">>, <<"1", "3">>}

Sections == {"recommendation", "analytics"}

\* Math.random() is drawn, for the six points of one chart update, from these
\* sequences of tenths.
RandomStreams == {<<0, 0, 0, 0, 0, 0>>, <<9, 5, 0, 9, 5, 0>>}

\* a + b
Add(a, b) ==
    LET x == ToNumber(a)
        y == ToNumber(b)
    IN  IF IsNumber(x) /\ IsNumber(y)
        THEN Rat(x.n * y.d + y.n * x.d, x.d * y.d)
        ELSE NaN

\* Number.prototype.toLocaleString() of an integer below a million, with the
\* grouping of the en-US and en-IN locales; "NaN" for NaN.  A function or an
\* object inherits Object.prototype.toLocaleString, which is its toString().
toLocaleString(v) ==
    IF v.t = "number"
    THEN IF v.n < 1000 THEN ToString(v.n)
         ELSE ToString(v.n \div 1000) \o ","
              \o (IF v.n % 1000 < 10 THEN "00" ELSE IF v.n % 1000 < 100 THEN "0" ELSE "")
              \o ToString(v.n % 1000)
    ELSE ToStringJS(v)

\* The class of the confidence badge.
statusClass(confidence) ==
    IF confidence >= 85 THEN "status status--success"
    ELSE IF confidence >= 70 THEN "status status--warning"
    ELSE "status status--error"

\* displayRecommendationResults: the four texts and the badge's class.
displayRecommendationResults(d, recommendation) ==
    [d EXCEPT !.recommendedAmount = toLocaleString(recommendation.amount),
              !.confidence = ToString(recommendation.confidence),
              !.userCluster = ToStringJS(recommendation.cluster),
              !.reasoning = recommendation.reasoning,
              !.confidenceClass = statusClass(recommendation.confidence)]

\* The six points updateSpendingChart draws around the profile's average:
\* round(base + (random - 0.5) * 0.3 * base), random given in tenths.  For the
\* users of UserOptions and the tenths of RandomStreams no point lies on a half.
spendingData(userProfile, randoms) ==
    LET baseAmount == avg_amount(userProfile)
        variation == Mul(baseAmount, Rat(3, 10))
    IN  [i \in 1 .. 6 |->
           MathRound(Add(baseAmount, Mul(Rat(randoms[i] - 5, 10), variation)))]

\* updateSpendingChart: the chart registry after the call.
updateSpendingChart(ch, userId, randoms) ==
    LET profile == userProfileOf([userId |-> userId])
    IN  IF ~Truthy(profile.v) \/ ~ch.spending.created THEN ch
        ELSE [ch EXCEPT !.spending.data = spendingData(profile, randoms)]

PlaceholderHTML == <<"Select a user to view profile">>

\* The four values of the profile panel (the rupee sign is written "Rs ").
profileHTML(profile) ==
    <<"Rs " \o toLocaleString(avg_amount(profile)),
      ToStringJS(transactions(profile)),
      ToStringJS(preferred_category(profile)),
      ToStringJS(cluster_name(profile))>>

\* updateUserProfile: the panel and the chart registry after the call.  A
\* userId found only on the prototype chain makes line 249 throw, before the
\* panel is written.
updateUserProfile(d, ch, userId, randoms) ==
    LET profile == userProfileOf([userId |-> userId])
    IN  IF ~Truthy(profile.v) \/ userId = ""
        THEN [dom |-> [d EXCEPT !.userProfileDisplay = PlaceholderHTML], charts |-> ch]
        ELSE IF ~profile.own
        THEN [dom |-> d, charts |-> ch]
        ELSE [dom |-> [d EXCEPT !.userProfileDisplay = profileHTML(profile)],
              charts |-> updateSpendingChart(ch, userId, randoms)]

\* createSpendingChart's initial data.
InitialSpendingData == <<850, 920, 750, 1100, 980, 1050>>

\* initializeCharts: the spending chart is registered unless the chart
\* library is missing, which the try/catch swallows.
initializeCharts(ch, library) ==
    IF library
    THEN [ch EXCEPT !.spending = [created |-> TRUE,
                                  data |-> [i \in 1 .. 6 |-> Num(InitialSpendingData[i])]]]
    ELSE ch

-----------------------------------------------------------------------------
(* The state once the DOMContentLoaded handler has run: the handlers are
   installed, the slider's label shows the slider's value, the 100 ms timer is
   pending and no chart exists yet. *)

InitPage(f) ==
    /\ appData = [userProfiles |-> userProfiles, categoryAverages |-> categoryAverages]
    /\ charts = [spending |-> [created |-> FALSE, data |-> <<>>]]
    /\ fields = f
    /\ dom = [recommendedAmount |-> "", confidence |-> "", userCluster |-> "",
              reasoning |-> "", confidenceClass |-> "status", resultsHidden |-> TRUE,
              userProfileDisplay |-> <<>>, sliderValue |-> f.hour]
    /\ activeSection = "recommendation"
    /\ timerPending = TRUE
    /\ event = [type |-> "other", calls |-> 0]
    /\ lastCall = NoCall
    /\ probe = NoCall
    /\ probePhase = "none"

FormValues ==
    [userId : UserOptions, category : CategoryOptions, location : LocationOptions,
     paymentMethod : PaymentOptions, hour : HourOptions]

Init ==
    /\ \E f \in FormValues : InitPage(f)
    /\ params = NoParams
    /\ result = NoResult
    /\ prev = NoCall
    /\ pc = "idle"

\* history: an operation other than a repeat of the probed call ran.
Disturbed(phase) == IF phase = "probed" THEN "disturbed" ELSE phase

-----------------------------------------------------------------------------
(* The handlers *)

\* Mutant: the test for empty fields of line 131 is missing.
Submit_noGuard ==
    LET p == [userId |-> fields.userId, category |-> fields.category,
              location |-> fields.location, paymentMethod |-> fields.paymentMethod,
              hour |-> fields.hour]
        recommendation == generateRecommendation(p)
        call == [made |-> TRUE, params |-> p, result |-> recommendation]
    IN  /\ dom' = [displayRecommendationResults(dom, recommendation)
                     EXCEPT !.resultsHidden = FALSE]
        /\ event' = [type |-> "submit", calls |-> 1]
        /\ lastCall' = call
        /\ probe' = probe
        /\ probePhase' = Disturbed(probePhase)
        /\ UNCHANGED <<appData, charts, fields, activeSection, timerPending,
                       scoreVars>>

\* The form's submit handler.
Submit ==
    LET p == [userId |-> fields.userId, category |-> fields.category,
              location |-> fields.location, paymentMethod |-> fields.paymentMethod,
              hour |-> fields.hour]
    IN  IF p.userId = "" \/ p.category = "" \/ p.location = "" \/ p.paymentMethod = ""
        THEN /\ event' = [type |-> "submit", calls |-> 0]
             /\ probePhase' = Disturbed(probePhase)
             /\ UNCHANGED <<appData, charts, fields, dom, activeSection, timerPending,
                            lastCall, probe, scoreVars>>
        ELSE LET recommendation == generateRecommendation(p)
                 call == [made |-> TRUE, params |-> p, result |-> recommendation]
             IN  /\ dom' = [displayRecommendationResults(dom, recommendation)
                              EXCEPT !.resultsHidden = FALSE]
                 /\ event' = [type |-> "submit", calls |-> 1]
                 /\ lastCall' = call
                 /\ \E take \in BOOLEAN :
                      IF take
                      THEN probe' = call /\ probePhase' = "probed"
                      ELSE /\ probe' = probe
                           /\ probePhase' =
                                IF probe.made /\ probe.params = p
                                THEN (IF probePhase = "disturbed" THEN "recalled"
                                      ELSE probePhase)
                                ELSE Disturbed(probePhase)
                 /\ UNCHANGED <<appData, charts, fields, activeSection, timerPending,
                                scoreVars>>

\* The user picks another option of the userId select (picking the selected
\* one fires no change event): its change handler runs updateUserProfile with
\* the new value.
UserChange(u) ==
    \E randoms \in RandomStreams :
      LET after == updateUserProfile(dom, charts, u, randoms)
      IN  /\ u # fields.userId
          /\ fields' = [fields EXCEPT !.userId = u]
          /\ dom' = after.dom
          /\ charts' = after.charts
          /\ event' = [type |-> "other", calls |-> 0]
          /\ probePhase' = Disturbed(probePhase)
          /\ UNCHANGED <<appData, activeSection, timerPending, lastCall, probe,
                         scoreVars>>

\* The user picks a category, a location or a payment method: no handler of
\* the script listens.
SetCategory(c) ==
    /\ fields' = [fields EXCEPT !.category = c]
    /\ event' = [type |-> "other", calls |-> 0]
    /\ UNCHANGED <<appData, charts, dom, activeSection, timerPending, lastCall,
                   probe, probePhase, scoreVars>>

SetLocation(l) ==
    /\ fields' = [fields EXCEPT !.location = l]
    /\ event' = [type |-> "other", calls |-> 0]
    /\ UNCHANGED <<appData, charts, dom, activeSection, timerPending, lastCall,
                   probe, probePhase, scoreVars>>

SetPaymentMethod(m) ==
    /\ fields' = [fields EXCEPT !.paymentMethod = m]
    /\ event' = [type |-> "other", calls |-> 0]
    /\ UNCHANGED <<appData, charts, dom, activeSection, timerPending, lastCall,
                   probe, probePhase, scoreVars>>

\* The user moves the hour slider: its input handler copies the value to the
\* slider's label.
SetHour(h) ==
    /\ fields' = [fields EXCEPT !.hour = h]
    /\ dom' = [dom EXCEPT !.sliderValue = h]
    /\ event' = [type |-> "other", calls |-> 0]
    /\ UNCHANGED <<appData, charts, activeSection, timerPending, lastCall,
                   probe, probePhase, scoreVars>>

\* A click on a navigation button.
Navigate(section) ==
    /\ activeSection' = section
    /\ event' = [type |-> "other", calls |-> 0]
    /\ probePhase' = Disturbed(probePhase)
    /\ UNCHANGED <<appData, charts, fields, dom, timerPending, lastCall, probe,
                   scoreVars>>

\* The 100 ms timer: initializeCharts(), then updateUserProfile('USER_0001').
TimerFire ==
    /\ timerPending
    /\ \E library \in BOOLEAN, randoms \in RandomStreams :
         LET after == updateUserProfile(dom, initializeCharts(charts, library),
                                        "USER_0001", randoms)
         IN  /\ dom' = after.dom
             /\ charts' = after.charts
    /\ timerPending' = FALSE
    /\ event' = [type |-> "other", calls |-> 0]
    /\ probePhase' = Disturbed(probePhase)
    /\ UNCHANGED <<appData, fields, activeSection, lastCall, probe, scoreVars>>

\* The window's resize handler: every chart is resized, no data changes.
Resize ==
    /\ event' = [type |-> "other", calls |-> 0]
    /\ UNCHANGED <<appData, charts, fields, dom, activeSection, timerPending,
                   lastCall, probe, probePhase, scoreVars>>

Next ==
    \/ Submit
    \/ \E u \in UserOptions : UserChange(u)
    \/ \E c \in CategoryOptions : SetCategory(c)
    \/ \E l \in LocationOptions : SetLocation(l)
    \/ \E m \in PaymentOptions : SetPaymentMethod(m)
    \/ \E h \in HourOptions : SetHour(h)
    \/ \E section \in Sections : Navigate(section)
    \/ TimerFire
    \/ Resize

Spec == Init /\ [][Next]_vars

-----------------------------------------------------------------------------
(* The scorer on its own: one call per argument, and the same call again
   with another location and payment method. *)

ScoreInit ==
    /\ InitPage([userId |-> "", category |-> "", location |-> "",
                 paymentMethod |-> "", hour |-> <<"1", "2">>])
    /\ params \in ScoreParams
    /\ result = NoResult
    /\ prev = NoCall
    /\ pc = "ready"

ScoreCall ==
    /\ pc = "ready"
    /\ result' = generateRecommendation(params)
    /\ pc' = "returned"
    /\ UNCHANGED <<appData, uiVars, params, prev>>

ScoreAgain ==
    /\ pc = "returned"
    /\ prev' = [made |-> TRUE, params |-> params, result |-> result]
    /\ \E l \in ScoreLocations, m \in ScorePaymentMethods :
         params' = [params EXCEPT !.location = l, !.paymentMethod = m]
    /\ result' = NoResult
    /\ pc' = "ready"
    /\ UNCHANGED <<appData, uiVars>>

ScoreNext == ScoreCall \/ ScoreAgain

SpecScore == ScoreInit /\ [][ScoreNext]_vars

-----------------------------------------------------------------------------
(* The claims about the scorer, checked under SpecScore *)

\* The keys the tables own.
KnownUser(p) == p.userId \in DOMAIN userProfiles

KnownCategory(p) == p.category \in DOMAIN categoryAverages

\* The multiplier, in tenths, the bands of the specification give an hour.
BandTenths(n) ==
    IF n \in 6 .. 10 THEN 8
    ELSE IF n \in 11 .. 14 THEN 12
    ELSE IF n \in 18 .. 22 THEN 11
    ELSE 7

\* The tenths for a raw hour: the band of the integer parseInt reads, 7 when
\* it reads none.
HourTenths(raw) ==
    LET hour == parseInt(raw)
    IN  IF IsNumber(hour) THEN BandTenths(hour.n) ELSE 7

\* avg * (categoryAverage / 500) * tenths / 10 as the fraction x / 5000.
ExactProduct(p) ==
    userProfiles[p.userId].avg_amount * categoryAverages[p.category] * HourTenths(p.hour)

\* The confidence the rule gives a profile and a category.
RuleConfidence(p) ==
    LET match == userProfiles[p.userId].preferred_category = p.category
        many == userProfiles[p.userId].transactions > 10
    IN  IF match /\ many THEN 95
        ELSE IF match THEN 90
        ELSE IF many THEN 80
        ELSE 70

\* No product the scorer rounds for the tables lies exactly on a half, so the
\* rounding of the exact fraction is the rounding of the double.
NoRoundingTie ==
    pc = "returned" /\ KnownUser(params) /\ KnownCategory(params)
      => (2 * ExactProduct(params)) % 5000 # 0 \/ ExactProduct(params) % 5000 = 0

\* C1: for every user of userProfiles, every category of categoryAverages and
\* every hour value (in 0..23, outside it, or not a number), the amount
\* returned is a number that is at least 50.
C1_AmountAtLeast50 ==
    pc = "returned" /\ KnownUser(params) /\ KnownCategory(params)
      => /\ result.amount.t = "number"
         /\ result.amount.n >= 50 * result.amount.d

\* C1 witness: the smallest amount the tables give, at an hour that is no number.
C1_Witness ==
    /\ pc = "returned" /\ KnownUser(params) /\ KnownCategory(params)
    /\ params.hour \in NonNumericHours
    /\ result.amount = Num(118)

\* C2: for a known user and a category with an average, the amount is
\* max(50, round(avg_amount * (categoryAverage / 500) * hourMultiplier)), the
\* rounding to the nearest integer done before the floor of 50; it is an integer.
C2_AmountFormula ==
    pc = "returned" /\ KnownUser(params) /\ KnownCategory(params)
      => LET x == ExactProduct(params)
             rounded == (2 * x + 5000) \div 10000
         IN  result.amount = Num(IF rounded >= 50 THEN rounded ELSE 50)

\* C2 witness: a call whose product is rounded up.
C2_Witness ==
    /\ pc = "returned" /\ KnownUser(params) /\ KnownCategory(params)
    /\ ExactProduct(params) % 5000 >= 2500
    /\ result.amount = Num(ExactProduct(params) \div 5000 + 1)

\* C3: for a known user, every category and every hour the confidence is
\* min(95, 70 + 20 for the preferred category + 10 above ten transactions):
\* 95 with both bonuses, 90 with the category only, 80 with the transactions
\* only, 70 with neither, whatever the hour.
C3_ConfidenceRule ==
    pc = "returned" /\ KnownUser(params)
      => /\ result.confidence = RuleConfidence(params)
         /\ result.confidence \in {70, 80, 90, 95}

\* C3 witness: both bonuses apply and the cap of 95 cuts their sum of 100.
C3_Witness ==
    /\ pc = "returned" /\ KnownUser(params)
    /\ userProfiles[params.userId].preferred_category = params.category
    /\ userProfiles[params.userId].transactions > 10
    /\ result.confidence = 95

\* C4: when the user id is empty or no key of userProfiles, the call returns
\* confidence 75, cluster "Unknown" and the category's average as the amount,
\* or 500 when the category has none, whatever the hour.
C4_UnknownUserFallback ==
    pc = "returned" /\ (params.userId = "" \/ ~KnownUser(params))
      => /\ result.confidence = 75
         /\ result.cluster = Str("Unknown")
         /\ result.amount = IF KnownCategory(params)
                            THEN Num(categoryAverages[params.category])
                            ELSE Num(500)

\* C4, where the code agrees with it: the user id and the category are no
\* names of Object.prototype.
C4_FallbackOffPrototype ==
    /\ pc = "returned" /\ (params.userId = "" \/ ~KnownUser(params))
    /\ params.userId \notin ObjectPrototypeKeys
    /\ params.category \notin ObjectPrototypeKeys
    => /\ result.confidence = 75
       /\ result.cluster = Str("Unknown")
       /\ result.amount = IF KnownCategory(params)
                          THEN Num(categoryAverages[params.category])
                          ELSE Num(500)

\* C4 example: an unknown user and "Shopping" give 842.
C4_ShoppingExample ==
    /\ pc = "returned" /\ params.userId = "USER_9999" /\ params.category = "Shopping"
    /\ result.amount = Num(842) /\ result.confidence = 75
    /\ result.cluster = Str("Unknown")

\* C5: the multiplier generateRecommendation uses is 0.8 for the hours 6..10,
\* 1.2 for 11..14, 1.1 for 18..22 and 0.7 for every other hour value: the gaps
\* 0..5, 15..17 and 23, negative hours, hours above 23 and hours that parse to
\* no number.
C5_HourBands ==
    pc = "returned"
      => /\ \A n \in (-LowHours) .. MaxHourInput :
              params.hour = Numeral(n)
                => hourMultiplierOf(params) = Rat(BandTenths(n), 10)
         /\ params.hour \in NonNumericHours => hourMultiplierOf(params) = Rat(7, 10)
         /\ KnownUser(params) /\ KnownCategory(params) /\ params.hour \in NumeralHours
              => result.amount = MathMax(MathRound(Rat(ExactProduct(params), 5000)),
                                         Num(50))

\* C5 witness: the last hour of a band, 22, in a call that returned.
C5_Witness ==
    /\ pc = "returned" /\ params.hour = Numeral(22)
    /\ KnownUser(params) /\ KnownCategory(params)
    /\ hourMultiplierOf(params) = Rat(11, 10)

\* C6 as stated: USER_0001 (average 1017, 8 transactions, preferring
\* "Entertainment"), hour 13 and the category whose average is 398 yield the
\* amount 971 and the confidence 70.
C6_Scenario70 ==
    /\ pc = "returned" /\ params.userId = "USER_0001" /\ params.hour = Numeral(13)
    /\ KnownCategory(params) /\ categoryAverages[params.category] = 398
    => result.amount = Num(971) /\ result.confidence = 70

\* C6 amended: the same request yields the amount 971 and the confidence 90,
\* the category whose average is 398 being the profile's preferred one.
C6_Scenario90 ==
    /\ pc = "returned" /\ params.userId = "USER_0001" /\ params.hour = Numeral(13)
    /\ KnownCategory(params) /\ categoryAverages[params.category] = 398
    => result.amount = Num(971) /\ result.confidence = 90

\* C6 witness: the scenario's call has returned.
C6_Witness ==
    /\ pc = "returned" /\ params.userId = "USER_0001" /\ params.hour = Numeral(13)
    /\ params.category = "Entertainment"
    /\ userProfiles[params.userId].preferred_category = params.category
    /\ result.amount = Num(971)

C9_MissingCategoryNaN ==
    pc = "returned" /\ KnownUser(params) /\ ~KnownCategory(params)
      => /\ result.amount = NaN
         /\ result.confidence = RuleConfidence(params)
         /\ result.cluster = Str(userProfiles[params.userId].cluster_name)

\* C9 witness: a known user with more than ten transactions asks for "Rent".
C9_Witness ==
    /\ pc = "returned" /\ params.userId = "USER_0655" /\ params.category = "Rent"
    /\ result.amount.t = "nan" /\ result.confidence = 80

-----------------------------------------------------------------------------
(* The claims about the page, checked under Spec *)

\* C7: two calls of generateRecommendation with the same userId, category,
\* location, paymentMethod and hour return the same amount, confidence,
\* cluster and reasoning, whatever ran between them (other calls,
\* updateUserProfile, updateSpendingChart and its random jitter, navigation
\* clicks); and the tables userProfiles and categoryAverages never change.
C7_Deterministic ==
    /\ appData = [userProfiles |-> userProfiles, categoryAverages |-> categoryAverages]
    /\ probe.made /\ lastCall.made /\ probe.params = lastCall.params
         => probe.result = lastCall.result

\* C7 witness: a call was kept, other handlers ran and jittered the chart,
\* and the same call was made again.
C7_Witness ==
    /\ probePhase = "recalled"
    /\ probe.made /\ lastCall.made /\ probe.params = lastCall.params
    /\ charts.spending.created
    /\ charts.spending.data # [i \in 1 .. 6 |-> Num(InitialSpendingData[i])]

\* The four fields the submit handler requires.
Filled(f) ==
    f.userId # "" /\ f.category # "" /\ f.location # "" /\ f.paymentMethod # ""

\* The four texts of the results panel, and those a result is shown as.
ShownTexts(d) == <<d.recommendedAmount, d.confidence, d.userCluster, d.reasoning>>

RenderedTexts(r) ==
    <<toLocaleString(r.amount), ToString(r.confidence), ToStringJS(r.cluster),
      r.reasoning>>

\* A submission with the four fields filled makes one call, with the form's
\* values, shows its result and unhides the panel; any other submission makes
\* no call and leaves the panel as it was.
C10_SubmitStep ==
    event'.type = "submit"
      => IF Filled(fields)
         THEN /\ event'.calls = 1
              /\ lastCall'.made
              /\ lastCall'.params = [userId |-> fields.userId,
                                     category |-> fields.category,
                                     location |-> fields.location,
                                     paymentMethod |-> fields.paymentMethod,
                                     hour |-> fields.hour]
              /\ lastCall'.result = generateRecommendation(lastCall'.params)
              /\ ShownTexts(dom') = RenderedTexts(lastCall'.result)
              /\ ~dom'.resultsHidden
         ELSE /\ event'.calls = 0
              /\ lastCall' = lastCall
              /\ ShownTexts(dom') = ShownTexts(dom)
              /\ dom'.confidenceClass = dom.confidenceClass
              /\ dom'.resultsHidden = dom.resultsHidden

\* The panel is visible once a call was made, and then shows the last call's
\* result.
C10_PanelShowsLastCall ==
    /\ dom.resultsHidden <=> ~lastCall.made
    /\ lastCall.made => ShownTexts(dom) = RenderedTexts(lastCall.result)

\* C10: across any sequence of submissions, one with userId, category,
\* location and paymentMethod all non-empty calls generateRecommendation once,
\* displays its result and makes the results panel visible; one with an empty
\* field calls it zero times and leaves the displayed amount, confidence,
\* cluster, reasoning and the panel's visibility unchanged; so the panel, when
\* visible, shows the result of the most recent fully-filled submission.
C10_SubmissionFrame == [][C10_SubmitStep]_vars /\ []C10_PanelShowsLastCall

\* C10 witness: a submission with an empty field after a filled one: the
\* panel stays visible with the earlier result.
C10_Witness ==
    /\ event = [type |-> "submit", calls |-> 0]
    /\ ~Filled(fields)
    /\ lastCall.made /\ ~dom.resultsHidden
    /\ ShownTexts(dom) = RenderedTexts(lastCall.result)

\* What the profile panel shows for the option selected in the userId
\* select: the profile's four values, or the placeholder when the option has
\* no profile.
PanelOf(userId) ==
    IF userId \in DOMAIN userProfiles
    THEN profileHTML([own |-> TRUE, key |-> userId, v |-> Obj("profile")])
    ELSE PlaceholderHTML

\* The spending chart's points were drawn around the average of that user.
ChartDrawnFor(ch, userId) ==
    \E randoms \in RandomStreams :
      ch.spending.data =
        spendingData([own |-> TRUE, key |-> userId, v |-> Obj("profile")], randoms)

\* The userId select's change handler has run: the panel no longer holds the
\* page's own markup.
ChangeHandlerRan(d) == d.userProfileDisplay # <<>>

\* The step of the deferred initialisation, taken after a change event: when
\* it has run, the panel shows the selected user's profile (or the
\* placeholder), and the chart, if there is one and the user has a profile,
\* was drawn from that user's avg_amount.
C11_TimerStep ==
    timerPending /\ ~timerPending' /\ ChangeHandlerRan(dom)
      => /\ dom'.userProfileDisplay = PanelOf(fields'.userId)
         /\ charts'.spending.created /\ fields'.userId \in DOMAIN userProfiles
              => ChartDrawnFor(charts', fields'.userId)

\* C11: for every interleaving of user-selection change events with the
\* deferred initialisation step (the 100 ms timer that creates the charts and
\* calls updateUserProfile('USER_0001')), once that step has run the profile
\* panel shows the profile of the user selected in the userId select (or the
\* placeholder when that user has no profile), and the spending chart's data
\* was generated from that same user's avg_amount.
C11_PanelFollowsSelection == [][C11_TimerStep]_vars

\* C11, where the code agrees with it: a change event that runs after the
\* deferred step leaves the panel and the chart with the selected user.
C11_ChangeAfterTimer ==
    [][~timerPending /\ fields'.userId # fields.userId
         => /\ dom'.userProfileDisplay = PanelOf(fields'.userId)
            /\ charts'.spending.created /\ fields'.userId \in DOMAIN userProfiles
                 => ChartDrawnFor(charts', fields'.userId)]_vars

=============================================================================
